---- MODULE Spec2Model ----
(***************************************************************************)
(* Crisis detection and correlation pipeline of the War Room:              *)
(*   CoordinatorAgent.process_ticker  (backend/agents/coordinator_agent.py)*)
(*   CoordinatorAgent.start_surveillance, correlate_events    (same file)  *)
(*   ScoutAgent                       (backend/agents/scout_agent.py)      *)
(*   TrendingAgent hunt mode          (Old/trending_agent.py)              *)
(*                                                                         *)
(* Units.  Time is in whole seconds (datetime values without their         *)
(* microseconds).  Prices are in tenths of a currency unit.  Values the    *)
(* code rounds to two decimals (z_score, projected_loss) are kept in       *)
(* hundredths.  Arithmetic is exact where the code uses binary floats.     *)
(***************************************************************************)
EXTENDS Integers, Sequences, FiniteSets, TLC

\* ------------------------------------------------------------------ bounds
NumScans == 2        \* process_ticker executions that may overlap
MaxClock == 1        \* seconds the wall clock may advance during a run

Scans == 1..NumScans

\* ------------------------------------------------------- program constants
SearchWindowMinutes == 30   \* trending_task['search_window_minutes']
CausalWindowMinutes == 30   \* correlate_events: 0 < latency_minutes <= 30
ConfidenceGate == 80        \* process_ticker: if confidence < 80
HighConfidenceAbove == 80   \* correlate_events: HIGH_CONFIDENCE if > 80
PanicThreshold == 60        \* _hunt_mode: panic_score > 60
MinIntradayPoints == 10     \* extract_prices: len(prices) < 10
MinDailyPoints == 2         \* extract_prices: len(closes) >= 2
TrendWindow == 10           \* predict_impact: prices[-10:]
ProjectionSteps == 12       \* predict_impact: len(recent_prices) + 12
ReviewLimit == 5            \* _hunt_mode: unique_articles[:5]

\* --------------------------------------------------------------- helpers
\* The value a missing dict entry / Python None stands for.
None == [none |-> TRUE]

Abs(x) == IF x < 0 THEN -x ELSE x

Max(a, b) == IF a >= b THEN a ELSE b

\* a / b rounded to the nearest integer, ties to the even neighbour
\* (Python's round on the exact quotient), for b > 0.
RoundDiv(a, b) ==
    LET q == a \div b
        r == a % b
    IN  IF 2 * r < b THEN q
        ELSE IF 2 * r > b THEN q + 1
        ELSE IF q % 2 = 0 THEN q ELSE q + 1

RECURSIVE SumSeq(_)
SumSeq(s) == IF s = <<>> THEN 0 ELSE Head(s) + SumSeq(Tail(s))

\* Sum of f[i] * g[i]; both sequences have the same length.
RECURSIVE Dot(_, _)
Dot(f, g) == IF f = <<>> THEN 0 ELSE Head(f) * Head(g) + Dot(Tail(f), Tail(g))

\* The last k elements of s (all of s when it is shorter): s[-k:].
LastK(s, k) == IF Len(s) <= k THEN s ELSE SubSeq(s, Len(s) - k + 1, Len(s))

\* The first k elements of s (all of s when it is shorter): s[:k].
FirstK(s, k) == IF Len(s) <= k THEN s ELSE SubSeq(s, 1, k)

RECURSIVE Gcd(_, _)
Gcd(a, b) == IF b = 0 THEN a ELSE Gcd(b, a % b)

\* ===================================================================
\* ScoutAgent (AnomalyDetector)
\* ===================================================================

\* A chart response: has_result says whether chart.result is non-empty,
\* close is the intraday close column (<<>> for a null entry, <<p>> for a
\* price), daily_ok says whether the 5d/1d fallback request succeeds and
\* daily is the close column it returns.
RECURSIVE NonNull(_)
NonNull(col) == IF col = <<>> THEN <<>> ELSE Head(col) \o NonNull(Tail(col))

\* Variant: any non-empty list of daily closes is accepted.
extract_prices_lenient(chart) ==
    IF ~chart.has_result THEN <<>>
    ELSE LET prices == NonNull(chart.close)
         IN  IF Len(prices) < MinIntradayPoints
             THEN IF ~chart.daily_ok THEN <<>> ELSE NonNull(chart.daily)
             ELSE prices

\* extract_prices: the non-null intraday closes when there are at least 10,
\* else the non-null daily closes when there are at least 2, else None
\* (here <<>>: the caller tests "not prices").
extract_prices(chart) ==
    IF ~chart.has_result THEN <<>>
    ELSE LET prices == NonNull(chart.close)
         IN  IF Len(prices) < MinIntradayPoints
             THEN IF ~chart.daily_ok THEN <<>>
                  ELSE LET closes == NonNull(chart.daily)
                       IN  IF Len(closes) >= MinDailyPoints THEN closes ELSE <<>>
             ELSE prices

\* n * latest - sum: the sign and size of (latest - mean), scaled by n.
ZNum(prices) == Len(prices) * prices[Len(prices)] - SumSeq(prices)

\* n * sum of squares - sum^2: n^2 times the population variance, computed
\* on the prices shifted by the first price (the variance does not change).
ZVar(prices) ==
    LET d == [i \in 1..Len(prices) |-> prices[i] - prices[1]]
    IN  Len(d) * Dot(d, d) - SumSeq(d) * SumSeq(d)

\* |z| in hundredths, rounded to the nearest, is the least k with
\* k + 1/2 > 100 |a| / sqrt(b), that is (2k+1)^2 * b > (200 a)^2.
ZAbove(k, a, b) == (2 * k + 1) * (2 * k + 1) * b > 40000 * a * a

\* The least k' >= k with ZAbove(k', a, b), given that no smaller one has
\* it; searched in strides of step, then step / 10, down to 1.
RECURSIVE ZSearch(_, _, _, _)
ZSearch(k, step, a, b) ==
    IF ZAbove(k + step - 1, a, b)
    THEN IF step = 1 THEN k ELSE ZSearch(k, step \div 10, a, b)
    ELSE ZSearch(k + step, step, a, b)

\* The unrounded z-score is ZNum / sqrt(ZVar), 0 when std_dev is 0.
\* analyze_volatility classifies the unrounded z-score and returns the
\* z-score rounded to two decimals (here in hundredths).
volatility_status_of(a, b) ==
    IF b > 0 /\ a < 0 /\ a * a > 4 * b THEN "SIGMA_EVENT"
    ELSE IF b > 0 /\ a < 0 /\ a * a > b THEN "HIGH_VOLATILITY"
    ELSE IF b > 0 /\ a > 0 /\ a * a > 4 * b THEN "RALLY"
    ELSE "STABLE"

analyze_volatility(prices) ==
    LET a == ZNum(prices)
        b == ZVar(prices)
        zabs == IF b > 0 THEN ZSearch(0, 100, Abs(a), b) ELSE 0
    IN  [z_score |-> IF a < 0 THEN -zabs ELSE zabs,
         volatility_status |-> volatility_status_of(a, b),
         latest_price |-> prices[Len(prices)]]

\* predict_impact: least-squares line through the last 10 prices against
\* the indices 0..n-1.  slope = SlopeNum / SlopeDen (tenths per step).
SlopeDen(n) ==
    LET x == [i \in 1..n |-> i - 1]
    IN  n * Dot(x, x) - SumSeq(x) * SumSeq(x)

SlopeNum(recent) ==
    LET n == Len(recent)
        x == [i \in 1..n |-> i - 1]
    IN  n * Dot(x, recent) - SumSeq(x) * SumSeq(recent)

\* Variant: the thresholds themselves count as a trend.
trend_of_inclusive(num, den) ==
    IF num <= -den THEN "DOWNWARD"
    ELSE IF num >= den THEN "UPWARD"
    ELSE "SIDEWAYS"

trend_of(num, den) ==
    IF num < -den THEN "DOWNWARD"        \* slope < -0.1 (one tenth)
    ELSE IF num > den THEN "UPWARD"      \* slope > 0.1
    ELSE "SIDEWAYS"

\* projected_loss in hundredths of a percent:
\* ((slope * (n + 12) + intercept - current) / current) * 100, rounded to
\* two decimals.  With y shifted by the current price the numerator of
\* (projected - current) is num * (n*(n+12) - Sx) + den * Sy over den * n.
projected_loss_of(recent) ==
    LET n == Len(recent)
        cur == recent[n]
        x == [i \in 1..n |-> i - 1]
        y == [i \in 1..n |-> recent[i] - cur]
        den == SlopeDen(n)
        num == SlopeNum(recent)
        top == num * (n * (n + ProjectionSteps) - SumSeq(x)) + den * SumSeq(y)
        bot == den * n * cur
        g == Gcd(Abs(top), bot)
    IN  IF top = 0 THEN 0 ELSE RoundDiv(10000 * (top \div g), bot \div g)

predict_impact(prices) ==
    LET recent == LastK(prices, TrendWindow)
    IN  [projected_loss |-> projected_loss_of(recent),
         trend |-> trend_of(SlopeNum(recent), SlopeDen(Len(recent)))]

\* The canned result returned for the ticker DEMO.NS.
DemoScoutResult(now) ==
    [status |-> "completed", ticker |-> "DEMO.NS", current_price |-> 12500,
     timestamp |-> now,
     stats |-> [z_score |-> -280, volatility_status |-> "SIGMA_EVENT"],
     prediction |-> [projected_loss |-> -400, trend |-> "DOWNWARD"]]

\* ScoutAgent.process_task.  fetched is what fetch_stock_data returned:
\* None or a chart response.
scout_process_task(tk, fetched, now) ==
    IF tk = "DEMO.NS" THEN DemoScoutResult(now)
    ELSE IF fetched = None
    THEN [status |-> "failed", ticker |-> tk,
          error |-> "Failed to fetch stock data"]
    ELSE LET prices == extract_prices(fetched)
         IN  IF prices = <<>>
             THEN [status |-> "failed", ticker |-> tk,
                   error |-> "Failed to extract price data"]
             ELSE LET va == analyze_volatility(prices)
                      pr == predict_impact(prices)
                  IN  [status |-> "completed", ticker |-> tk,
                       current_price |-> va.latest_price,
                       timestamp |-> now,
                       stats |-> [z_score |-> va.z_score,
                                  volatility_status |-> va.volatility_status],
                       prediction |-> [projected_loss |-> pr.projected_loss,
                                       trend |-> pr.trend]]

\* ===================================================================
\* TrendingAgent, hunt mode (ReactiveHunter)
\* ===================================================================

\* dict.get(key, default) on a record.
Get(d, key, default) == IF key \in DOMAIN d THEN d[key] ELSE default

panic_keywords == <<"fraud", "arrest", "raid", "bankruptcy", "scandal", "crisis">>

\* An RSS item is [title, pubDate] with pubDate = <<t>> for a parseable
\* date and <<>> for a missing or unparseable one.  An article is
\* [title, published] with the same convention for published.

\* The dated items published at or after now - window, as articles.
RECURSIVE recent_items(_, _, _)
recent_items(items, window_mins, now) ==
    IF items = <<>> THEN <<>>
    ELSE LET item == Head(items)
             rest == recent_items(Tail(items), window_mins, now)
         IN  IF item.pubDate # <<>> /\ item.pubDate[1] >= now - 60 * window_mins
             THEN <<[title |-> item.title, published |-> item.pubDate]>> \o rest
             ELSE rest

\* fetch_targeted_news.  feed.ok is FALSE when the request raises, answers
\* with a status other than 200 or is not parseable XML (the result is then
\* the empty list); otherwise feed.items is the sequence of RSS items.
fetch_targeted_news(feed, window_mins, now) ==
    IF ~feed.ok THEN <<>> ELSE recent_items(feed.items, window_mins, now)

\* Variant: the first failing query ends the collection.
RECURSIVE fetch_all_until_failure(_, _, _, _)
fetch_all_until_failure(feeds, k, window_mins, now) ==
    IF k > Len(panic_keywords) \/ ~feeds[k].ok THEN <<>>
    ELSE fetch_targeted_news(feeds[k], window_mins, now)
             \o fetch_all_until_failure(feeds, k + 1, window_mins, now)

\* all_articles: the six query results, concatenated in keyword order.
RECURSIVE fetch_all(_, _, _, _)
fetch_all(feeds, k, window_mins, now) ==
    IF k > Len(panic_keywords) THEN <<>>
    ELSE fetch_targeted_news(feeds[k], window_mins, now)
             \o fetch_all(feeds, k + 1, window_mins, now)

\* {a['title']: a for a in all_articles}.values(): one article per title,
\* in the order of each title's first occurrence, carrying the value of its
\* last occurrence.
LastWithTitle(arts, t) ==
    arts[CHOOSE i \in 1..Len(arts) :
            /\ arts[i].title = t
            /\ \A j \in (i + 1)..Len(arts) : arts[j].title # t]

RECURSIVE UniqueFrom(_, _, _)
UniqueFrom(arts, i, seen) ==
    IF i > Len(arts) THEN <<>>
    ELSE IF arts[i].title \in seen THEN UniqueFrom(arts, i + 1, seen)
    ELSE <<LastWithTitle(arts, arts[i].title)>>
             \o UniqueFrom(arts, i + 1, seen \cup {arts[i].title})

unique_by_title(arts) == UniqueFrom(arts, 1, {})

\* Variant: articles published after the crash are kept.
in_hunt_window_unbounded(pt, ct, minutes) == ct - 60 * minutes <= pt

\* start <= pt <= ct with start = ct - timedelta(minutes=minutes)
in_hunt_window(pt, ct, minutes) == ct - 60 * minutes <= pt /\ pt <= ct

\* filter_by_time.  crash_time is <<ct>> for a parseable crash time and <<>>
\* for a missing or unparseable one: "if not crash_time" and the outer
\* except both return news_items as they came.  Otherwise the articles with
\* a parseable time pt such that crash_time - minutes <= pt <= crash_time
\* are kept.
RECURSIVE filter_by_time(_, _, _)
filter_by_time(news_items, crash_time, minutes) ==
    IF crash_time = <<>> \/ news_items = <<>> THEN news_items
    ELSE LET n == Head(news_items)
             rest == filter_by_time(Tail(news_items), crash_time, minutes)
         IN  IF n.published # <<>>
                  /\ in_hunt_window(n.published[1], crash_time[1], minutes)
             THEN <<n>> \o rest
             ELSE rest

\* Variant: output without a panic_score is not absorbed.
analyze_panic_strict(headlines, llm) ==
    IF headlines = <<>> \/ llm.kind = "error"
    THEN [numeric |-> TRUE, panic_score |-> 0]
    ELSE IF llm.kind \in {"no_score", "non_numeric"} THEN [numeric |-> FALSE]
    ELSE [numeric |-> TRUE, panic_score |-> llm.panic_score]

\* analyze_panic.  llm is what the model call produced:
\*   [kind |-> "error"]                 the call raised or gave unparsable text
\*   [kind |-> "no_score"]              JSON without a panic_score entry
\*   [kind |-> "non_numeric"]           JSON whose panic_score is not a number
\*   [kind |-> "score", panic_score |-> p]
\* The first two are absorbed into the default result with panic_score 0;
\* the others are returned as parsed.
analyze_panic(headlines, llm) ==
    IF headlines = <<>> \/ llm.kind \in {"error", "no_score"}
    THEN [numeric |-> TRUE, panic_score |-> 0]
    ELSE IF llm.kind = "non_numeric" THEN [numeric |-> FALSE]
    ELSE [numeric |-> TRUE, panic_score |-> llm.panic_score]

\* Variant: a panic score of 60 already counts.
is_smoking_gun_inclusive(panic_score) == panic_score >= PanicThreshold

is_smoking_gun(panic_score) == panic_score > PanicThreshold

\* task.get('crash_time'): <<ct>>, or <<>> when the task carries none (or
\* one that datetime.fromisoformat rejects).
task_crash_time(task) ==
    IF "crash_time" \in DOMAIN task THEN <<task.crash_time>> ELSE <<>>

\* TrendingAgent._hunt_mode wrapped by TrendingAgent.process_task: a
\* comparison of a non-numeric panic_score with 60 raises, and process_task
\* turns the exception into a failed result.
hunt_process_task(task, feeds, llm, now) ==
    LET window_mins == Get(task, "search_window_minutes", 30)
        crash_time == task_crash_time(task)
        all_articles == fetch_all(feeds, 1, window_mins, now)
        unique_articles ==
            filter_by_time(unique_by_title(all_articles), crash_time,
                           window_mins)
        headlines == [i \in 1..Len(unique_articles) |-> unique_articles[i].title]
        panic_analysis == analyze_panic(headlines, llm)
    IN  IF unique_articles = <<>>
        THEN [mode |-> "hunt", ticker |-> task.target_ticker,
              status |-> "completed", smoking_gun_found |-> FALSE,
              articles_analyzed |-> 0,
              verdict |-> "NO_MISINFORMATION_DETECTED"]
        ELSE IF ~panic_analysis.numeric
        THEN [status |-> "failed", error |-> "TypeError"]
        ELSE [mode |-> "hunt", ticker |-> task.target_ticker,
              status |-> "completed",
              smoking_gun_found |-> is_smoking_gun(panic_analysis.panic_score),
              articles_analyzed |-> Len(unique_articles),
              panic_score |-> panic_analysis.panic_score,
              articles |-> FirstK(unique_articles, ReviewLimit),
              verdict |-> IF is_smoking_gun(panic_analysis.panic_score)
                          THEN "MISINFORMATION_LIKELY"
                          ELSE "ORGANIC_VOLATILITY"]
             @@ (IF crash_time = <<>> THEN <<>>
                 ELSE [crash_time |-> crash_time[1]])

\* Variant: only the headlines of the articles kept for review are scored.
hunt_locals_top_five(task, feeds, now) ==
    LET window_mins == Get(task, "search_window_minutes", 30)
        crash_time == task_crash_time(task)
        all_articles == fetch_all(feeds, 1, window_mins, now)
        unique_articles ==
            filter_by_time(unique_by_title(all_articles), crash_time,
                           window_mins)
        top == FirstK(unique_articles, ReviewLimit)
    IN  [all_articles |-> all_articles,
         unique_articles |-> unique_articles,
         panic_calls |-> <<[i \in 1..Len(top) |-> top[i].title]>>]

\* The local variables of _hunt_mode when it returns: all_articles as
\* collected, unique_articles after the removal of duplicates and
\* filter_by_time, and the calls of analyze_panic it has made, each given
\* by the list of headlines passed (analyze_panic in turn calls the model
\* once for a non-empty list).
hunt_locals(task, feeds, now) ==
    LET window_mins == Get(task, "search_window_minutes", 30)
        crash_time == task_crash_time(task)
        all_articles == fetch_all(feeds, 1, window_mins, now)
        unique_articles ==
            filter_by_time(unique_by_title(all_articles), crash_time,
                           window_mins)
        headlines == [i \in 1..Len(unique_articles) |-> unique_articles[i].title]
    IN  [all_articles |-> all_articles,
         unique_articles |-> unique_articles,
         panic_calls |-> IF unique_articles = <<>> THEN <<>>
                         ELSE <<headlines>>]

\* ===================================================================
\* CoordinatorAgent.correlate_events (CorrelationEngine)
\* ===================================================================

\* latency in seconds of an article against the crash time.
latency_seconds(crash_time, article) == crash_time - article.published[1]

\* Variant: any dated article published before the crash is a candidate.
is_candidate_any_past(crash_time, article) ==
    /\ article.published # <<>>
    /\ 0 < latency_seconds(crash_time, article)

\* 0 < latency_minutes <= 30
is_candidate(crash_time, article) ==
    /\ article.published # <<>>
    /\ 0 < latency_seconds(crash_time, article)
    /\ latency_seconds(crash_time, article) <= 60 * CausalWindowMinutes

\* Variant: every article with a parseable time is a candidate.
candidates_of_dated(crash_time, news_items) ==
    SelectSeq(news_items, LAMBDA a : a.published # <<>>)

RECURSIVE candidates_of(_, _)
candidates_of(crash_time, news_items) ==
    IF news_items = <<>> THEN <<>>
    ELSE (IF is_candidate(crash_time, Head(news_items))
          THEN <<Head(news_items)>> ELSE <<>>)
             \o candidates_of(crash_time, Tail(news_items))

\* Variant: the candidates are not sorted; the first found is taken.
first_candidate(crash_time, candidates) == candidates[1]

\* candidates.sort(key=latency)[0]: the first candidate, in list order,
\* among those of least latency (the sort is stable).
closest_candidate(crash_time, candidates) ==
    candidates[CHOOSE i \in 1..Len(candidates) :
        /\ \A j \in 1..Len(candidates) :
              latency_seconds(crash_time, candidates[i])
                  <= latency_seconds(crash_time, candidates[j])
        /\ \A j \in 1..(i - 1) :
              latency_seconds(crash_time, candidates[j])
                  > latency_seconds(crash_time, candidates[i])]

\* int(x / d): truncation towards zero, d > 0.
TruncDiv(x, d) == IF x >= 0 THEN x \div d ELSE -((-x) \div d)

\* Variant: the temporal score grows with the latency.
correlation_confidence_of_rising(latency, panic_score) ==
    TruncDiv(60 * 5 * latency + 4000 * panic_score, 10000)

\* int(temporal_score * 0.6 + panic_score * 0.4) with
\* temporal_score = max(0, 100 - 3 * latency_minutes), latency in seconds:
\* 100 * temporal_score = max(0, 10000 - 5 * latency).
correlation_confidence_of(latency, panic_score) ==
    LET temporal100 == Max(0, 10000 - 5 * latency)
    IN  TruncDiv(60 * temporal100 + 4000 * panic_score, 10000)

verdict_of(confidence) ==
    IF confidence > HighConfidenceAbove THEN "HIGH_CONFIDENCE"
    ELSE "MEDIUM_CONFIDENCE"

\* stock_data.get('crash_timestamp') or stock_data.get('timestamp')
crash_time_of(stock_data) ==
    IF "crash_timestamp" \in DOMAIN stock_data
    THEN stock_data.crash_timestamp ELSE stock_data.timestamp

correlate_events(stock_data, news_items) ==
    IF news_items = <<>>
    THEN [smoking_gun_found |-> FALSE, correlation_confidence |-> 0,
          verdict |-> "NO_NEWS_DATA"]
    ELSE LET crash_time == crash_time_of(stock_data)
             candidates == candidates_of(crash_time, news_items)
         IN  IF candidates = <<>>
             THEN [smoking_gun_found |-> FALSE, correlation_confidence |-> 0,
                   verdict |-> "NO_TEMPORAL_MATCH"]
             ELSE LET article == closest_candidate(crash_time, candidates)
                      latency == latency_seconds(crash_time, article)
                      confidence ==
                          correlation_confidence_of(
                              latency, Get(stock_data, "panic_score", 50))
                  IN  [smoking_gun_found |-> TRUE, smoking_gun |-> article,
                       article_time |-> article.published[1],
                       latency_minutes |-> RoundDiv(100 * latency, 60),
                       correlation_confidence |-> confidence,
                       verdict |-> verdict_of(confidence),
                       total_candidates |-> Len(candidates)]

\* ===================================================================
\* CoordinatorAgent.generate_response (ResponseGenerator)
\* ===================================================================

\* llm is what the response model produced:
\*   [kind |-> "error"]        the call raised or the text is not JSON
\*   [kind |-> "missing_key"]  JSON lacking one of the three entries
\*   [kind |-> "texts", cease_desist |-> .., official_denial |-> ..,
\*    ceo_alert |-> ..]
generate_response(threat_data, llm) ==
    IF llm.kind = "texts"
    THEN [status |-> "success", cease_desist |-> llm.cease_desist,
          official_denial |-> llm.official_denial,
          ceo_alert |-> llm.ceo_alert]
    ELSE [status |-> "failed", error |-> llm.kind]

\* ===================================================================
\* CoordinatorAgent.process_ticker (CrisisPipeline)
\* ===================================================================

VARIABLES
    pc,                \* pc[s]: where execution s of process_ticker stands
    ticker,            \* ticker[s]: its argument
    calls,             \* calls[s]: the stages it has invoked, in order
    scout_returned,    \* what scout.process_task returned to it
    force_crash_test,  \* whether it found the FORCE_CRASH_TEST file
    scout_result,      \* its scout_result dict, as process_ticker mutates it
    trending_result,   \* its trending_result
    hunt_unique_articles, \* the hunter's unique_articles when it returned
                       \* to it (the result carries the first five)
    correlation,       \* its correlation
    responses,         \* its responses
    attack_package,    \* its attack_package
    db_outcome,        \* what the verified_threats insert did for it
    result,            \* the value it returned
    verified_attacks,  \* coordinator.verified_attacks (shared list)
    verified_threats,  \* rows of the verified_threats table
    now,               \* wall clock, seconds
    trending_module,   \* the module whose TrendingAgent the coordinator holds
    surveillance,      \* the state of start_surveillance (see below)
    direct             \* the last direct call of an agent's method: its
                       \* arguments and what it returned

vars == <<pc, ticker, calls, scout_returned, force_crash_test, scout_result,
          trending_result, hunt_unique_articles, correlation, responses,
          attack_package,
          db_outcome, result, verified_attacks, verified_threats, now,
          trending_module, surveillance, direct>>

locals == <<scout_returned, force_crash_test, scout_result, trending_result,
            hunt_unique_articles, correlation, responses, attack_package,
            db_outcome>>

\* backend/agents/trending_agent.py is the module coordinator_agent imports;
\* its TrendingAgent has no process_task.  Old/trending_agent.py is the
\* TrendingAgent that has the hunt mode process_ticker calls.
TrendingModules == {"backend.agents.trending_agent", "Old.trending_agent"}

has_process_task(module) == module = "Old.trending_agent"

\* No method has been called directly.
NoCall == [method |-> "none"]

\* start_surveillance: surveillance_active and monitored_tickers are the
\* coordinator's fields; cycle_count, index (the position of the for loop
\* in monitored_tickers) and scan (the execution of process_ticker the loop
\* is blocked in, 0 for none) are its locals; at says where it stands:
\*   "off"      not called
\*   "while"    at the test of the while loop
\*   "for"      at the head of the for loop
\*   "call"     inside process_ticker(ticker)
\*   "monitor"  at monitor_effectiveness()
\*   "sleep"    in time.sleep(interval)
\*   "stopped"  returned after KeyboardInterrupt
\*   "raised"   left by an exception
SurveillanceOff ==
    [at |-> "off", surveillance_active |-> FALSE, monitored_tickers |-> <<>>,
     cycle_count |-> 0, index |-> 0, scan |-> 0]

Init ==
    /\ pc = [s \in Scans |-> "idle"]
    /\ ticker = [s \in Scans |-> ""]
    /\ calls = [s \in Scans |-> <<>>]
    /\ scout_returned = [s \in Scans |-> None]
    /\ force_crash_test = [s \in Scans |-> FALSE]
    /\ scout_result = [s \in Scans |-> None]
    /\ trending_result = [s \in Scans |-> None]
    /\ hunt_unique_articles = [s \in Scans |-> <<>>]
    /\ correlation = [s \in Scans |-> None]
    /\ responses = [s \in Scans |-> None]
    /\ attack_package = [s \in Scans |-> None]
    /\ db_outcome = [s \in Scans |-> ""]
    /\ result = [s \in Scans |-> None]
    /\ verified_attacks = <<>>
    /\ verified_threats = <<>>
    /\ now = 0
    /\ trending_module \in TrendingModules
    /\ surveillance = SurveillanceOff
    /\ direct = NoCall

\* Variant: the package is appended without going through the archive
\* write.
next_stage_skipping(stage) ==
    CASE stage = "scan" -> "hunt"
      [] stage = "hunt" -> "correlate"
      [] stage = "correlate" -> "respond"
      [] stage = "respond" -> "append"

\* The statements of process_ticker run in program order: the stage that
\* follows each stage when no return intervenes.
next_stage(stage) ==
    CASE stage = "scan" -> "hunt"
      [] stage = "hunt" -> "correlate"
      [] stage = "correlate" -> "respond"
      [] stage = "respond" -> "archive"

\* The dicts process_ticker returns.
scout_failed_result(r) == [status |-> "scout_failed", result |-> r]

normal_result(volatility_status) ==
    [status |-> "normal", volatility_status |-> volatility_status,
     message |-> "No action needed"]

\* Variant: the hunt result is replaced by a bare failure.
trending_failed_result_bare(r) ==
    [status |-> "trending_failed", result |-> [status |-> "failed"]]

trending_failed_result(r) == [status |-> "trending_failed", result |-> r]

organic_crash_result(c) == [status |-> "organic_crash", correlation |-> c]

low_confidence_result(c) == [status |-> "low_confidence", correlation |-> c]

\* Variant: a package without response texts is not reported as verified.
attack_verified_result_strict(package) ==
    [status |-> IF package.responses.status = "failed"
                THEN "response_failed" ELSE "attack_verified",
     attack_package |-> package]

attack_verified_result(package) ==
    [status |-> "attack_verified", attack_package |-> package]

\* return value: pc becomes "done" and result[s] the returned dict.
Return(s, value) ==
    /\ pc' = [pc EXCEPT ![s] = "done"]
    /\ result' = [result EXCEPT ![s] = value]

\* scan_ticker(ticker) / process_ticker(ticker) is called.
Call(s, tickers) ==
    /\ pc[s] = "idle"
    /\ \E tk \in tickers : ticker' = [ticker EXCEPT ![s] = tk]
    /\ pc' = [pc EXCEPT ![s] = "scan"]
    /\ UNCHANGED <<calls, locals, result, verified_attacks, verified_threats,
                   now, trending_module, surveillance, direct>>

\* The FORCE_CRASH_TEST override of process_ticker.
forced_scout_result(r) ==
    [r EXCEPT !.stats.z_score = -250,
              !.current_price = 9450,
              !.prediction = [projected_loss |-> -500, trend |-> "DOWNWARD"]]

\* Variant: high volatility also opens the gate.
is_sigma_event_loose(volatility_status) ==
    volatility_status \in {"SIGMA_EVENT", "HIGH_VOLATILITY"}

is_sigma_event(volatility_status) == volatility_status = "SIGMA_EVENT"

\* STEP 1: scout.process_task, the FORCE_CRASH_TEST override and the
\* Sigma Event gate.  charts is what fetch_stock_data may return,
\* marker_states whether the FORCE_CRASH_TEST file may exist.
ScoutStage(s, charts, marker_states) ==
    /\ pc[s] = "scan"
    /\ calls' = [calls EXCEPT ![s] = Append(@, "scan")]
    /\ \E fetched \in charts, force \in marker_states :
         LET r == scout_process_task(ticker[s], fetched, now)
             volatility_status ==
                 IF force THEN "SIGMA_EVENT" ELSE r.stats.volatility_status
         IN  /\ scout_returned' = [scout_returned EXCEPT ![s] = r]
             /\ IF r.status # "completed"
                THEN /\ Return(s, scout_failed_result(r))
                     /\ UNCHANGED <<scout_result, force_crash_test>>
                ELSE /\ force_crash_test' = [force_crash_test EXCEPT ![s] = force]
                     /\ scout_result' = [scout_result EXCEPT ![s] =
                            IF force THEN forced_scout_result(r) ELSE r]
                     /\ IF ~is_sigma_event(volatility_status)
                        THEN Return(s, normal_result(volatility_status))
                        ELSE /\ pc' = [pc EXCEPT ![s] = next_stage("scan")]
                             /\ UNCHANGED result
    /\ UNCHANGED <<ticker, trending_result,
                   hunt_unique_articles, correlation, responses,
                   attack_package, db_outcome, verified_attacks,
                   verified_threats, now, trending_module,
                   surveillance, direct>>

trending_task(s) ==
    [mode |-> "hunt", target_ticker |-> ticker[s],
     crash_time |-> scout_result[s].timestamp,
     search_window_minutes |-> SearchWindowMinutes,
     urgency_level |-> "CRITICAL"]

\* The feeds of a hunt are given by the age of each item at the crash time
\* (age <<>> for an undated item); this places them on the clock.
dated_feed(spec, crash_time) ==
    [ok |-> spec.ok,
     items |-> [i \in 1..Len(spec.items) |->
                  [title |-> spec.items[i].title,
                   pubDate |-> IF spec.items[i].age = <<>> THEN <<>>
                               ELSE <<crash_time - spec.items[i].age[1]>>]]]

\* STEP 2: trending.process_task(trending_task).  A TrendingAgent without a
\* process_task method makes the call raise AttributeError, which nothing
\* in process_ticker catches.
HuntStage(s, feed_specs, panic_llm) ==
    /\ pc[s] = "hunt"
    /\ calls' = [calls EXCEPT ![s] = Append(@, "hunt")]
    /\ IF ~has_process_task(trending_module)
       THEN /\ pc' = [pc EXCEPT ![s] = "raised"]
            /\ UNCHANGED <<result, trending_result, hunt_unique_articles>>
       ELSE \E spec \in feed_specs, llm \in panic_llm :
              LET task == trending_task(s)
                  feeds == [k \in 1..Len(panic_keywords) |->
                               dated_feed(spec[k], task.crash_time)]
                  r == hunt_process_task(task, feeds, llm, now)
              IN  /\ trending_result' = [trending_result EXCEPT ![s] = r]
                  /\ hunt_unique_articles' =
                         [hunt_unique_articles EXCEPT ![s] =
                             hunt_locals(task, feeds, now).unique_articles]
                  /\ IF r.status # "completed"
                     THEN Return(s, trending_failed_result(r))
                     ELSE /\ pc' = [pc EXCEPT ![s] = next_stage("hunt")]
                          /\ UNCHANGED result
    /\ UNCHANGED <<ticker, scout_returned, force_crash_test, scout_result,
                   correlation, responses, attack_package, db_outcome,
                   verified_attacks, verified_threats, now, trending_module,
                   surveillance, direct>>

confidence_too_low(confidence) == confidence < ConfidenceGate

\* STEP 3: correlate_events and the two gates that follow it.
CorrelateStage(s) ==
    /\ pc[s] = "correlate"
    /\ calls' = [calls EXCEPT ![s] = Append(@, "correlate")]
    /\ LET stock_data ==
             [k \in DOMAIN scout_result[s] \cup {"panic_score", "crash_timestamp"} |->
                 IF k = "panic_score" THEN Get(trending_result[s], "panic_score", 0)
                 ELSE IF k = "crash_timestamp" THEN scout_result[s].timestamp
                 ELSE scout_result[s][k]]
           c == correlate_events(stock_data, Get(trending_result[s], "articles", <<>>))
       IN  /\ scout_result' = [scout_result EXCEPT ![s] = stock_data]
           /\ correlation' = [correlation EXCEPT ![s] = c]
           /\ IF ~c.smoking_gun_found
              THEN Return(s, organic_crash_result(c))
              ELSE IF confidence_too_low(c.correlation_confidence)
              THEN Return(s, low_confidence_result(c))
              ELSE /\ pc' = [pc EXCEPT ![s] = next_stage("correlate")]
                   /\ UNCHANGED result
    /\ UNCHANGED <<ticker, scout_returned, force_crash_test, trending_result,
                   hunt_unique_articles,
                   responses, attack_package, db_outcome, verified_attacks,
                   verified_threats, now, trending_module,
                   surveillance, direct>>

\* f"{ticker}_{datetime.now().strftime('%Y%m%d_%H%M%S')}": the ticker and
\* the clock to the second.
event_id_of(tk, clock) == <<tk, clock>>

build_attack_package(s, resp, clock) ==
    [event_id |-> event_id_of(ticker[s], clock),
     ticker |-> ticker[s],
     crash_timestamp |-> scout_result[s].crash_timestamp,
     current_price |-> scout_result[s].current_price,
     z_score |-> scout_result[s].stats.z_score,
     projected_loss |-> scout_result[s].prediction.projected_loss,
     smoking_gun_headline |-> correlation[s].smoking_gun.title,
     article_timestamp |-> correlation[s].article_time,
     latency_minutes |-> correlation[s].latency_minutes,
     panic_score |-> trending_result[s].panic_score,
     correlation_confidence |-> correlation[s].correlation_confidence,
     verdict |-> "MISINFORMATION_CAUSED_CRASH",
     responses |-> resp,
     archived_at |-> clock]

\* STEP 4: generate_response, then the attack package is assembled.
RespondStage(s, response_llm) ==
    /\ pc[s] = "respond"
    /\ calls' = [calls EXCEPT ![s] = Append(@, "respond")]
    /\ \E llm \in response_llm :
         LET threat_data ==
                 [ticker |-> ticker[s],
                  smoking_gun_headline |-> correlation[s].smoking_gun.title,
                  projected_loss |-> scout_result[s].prediction.projected_loss,
                  panic_score |-> trending_result[s].panic_score]
             resp == generate_response(threat_data, llm)
         IN  /\ responses' = [responses EXCEPT ![s] = resp]
             /\ attack_package' = [attack_package EXCEPT ![s] =
                    build_attack_package(s, resp, now)]
    /\ pc' = [pc EXCEPT ![s] = next_stage("respond")]
    /\ UNCHANGED <<ticker, scout_returned, force_crash_test, scout_result,
                   trending_result,
                   hunt_unique_articles, correlation, db_outcome, result,
                   verified_attacks, verified_threats, now, trending_module,
                   surveillance, direct>>

\* The row save_attack_package inserts into verified_threats.
payload_of(attack_data) ==
    [k \in (DOMAIN attack_data \ {"article_timestamp", "verdict", "archived_at"})
            \cup {"response_deployed"} |->
        IF k = "response_deployed" THEN FALSE ELSE attack_data[k]]

\* Where save_attack_package continues after its try block: whatever the
\* insert did, "except Exception: pass" lets it go on to the append.
\* Variant: a failing insert is not caught.
after_insert_uncaught(outcome) ==
    IF outcome = "failed" THEN "raised" ELSE "append"

after_insert(outcome) == "append"

\* STEP 5, first half: save_attack_package tries the database insert.
\* outcome "inserted": the row is written; "no_client": db.supabase is not
\* set; "failed": the import or the insert raised.
ArchiveStage(s, db_outcomes) ==
    /\ pc[s] = "archive"
    /\ calls' = [calls EXCEPT ![s] = Append(@, "archive")]
    /\ \E outcome \in db_outcomes :
         /\ db_outcome' = [db_outcome EXCEPT ![s] = outcome]
         /\ verified_threats' =
                IF outcome = "inserted"
                THEN Append(verified_threats, payload_of(attack_package[s]))
                ELSE verified_threats
         /\ pc' = [pc EXCEPT ![s] = after_insert(outcome)]
    /\ UNCHANGED <<ticker, scout_returned, force_crash_test, scout_result,
                   trending_result,
                   hunt_unique_articles, correlation, responses, attack_package,
                   result, verified_attacks, now, trending_module,
                   surveillance, direct>>

\* Variant: the list is rebuilt from the new element alone.
list_append_overwrite(lst, x) == <<x>>

\* list.append: one atomic step of the interpreter.
list_append(lst, x) == Append(lst, x)

\* STEP 5, second half: self.verified_attacks.append(attack_data).
AppendStage(s) ==
    /\ pc[s] = "append"
    /\ verified_attacks' = list_append(verified_attacks, attack_package[s])
    /\ pc' = [pc EXCEPT ![s] = "return"]
    /\ UNCHANGED <<ticker, calls, locals, result, verified_threats, now,
                   trending_module, surveillance, direct>>

\* return {'status': 'attack_verified', 'attack_package': attack_package}
ReturnVerified(s) ==
    /\ pc[s] = "return"
    /\ Return(s, attack_verified_result(attack_package[s]))
    /\ UNCHANGED <<ticker, calls, locals, verified_attacks, verified_threats,
                   now, trending_module, surveillance, direct>>

\* The wall clock advances by a second.
Tick ==
    /\ now < MaxClock
    /\ now' = now + 1
    /\ UNCHANGED <<pc, ticker, calls, locals, result, verified_attacks,
                   verified_threats, trending_module, surveillance, direct>>

\* ===================================================================
\* CoordinatorAgent.start_surveillance
\* ===================================================================

\* What start_surveillance leaves alone in the executions of process_ticker.
scan_locals == <<calls, locals, result, verified_attacks, verified_threats,
                 now, trending_module, direct>>

\* start_surveillance(tickers, interval) is called.
StartSurveillance(ticker_lists) ==
    /\ surveillance.at = "off"
    /\ \E tickers \in ticker_lists :
         surveillance' = [surveillance EXCEPT !.monitored_tickers = tickers,
                                              !.surveillance_active = TRUE,
                                              !.at = "while"]
    /\ UNCHANGED <<pc, ticker, scan_locals>>

\* while self.surveillance_active: cycle_count += 1.  A cycle is started
\* only while an execution of process_ticker is left to run in it.
SurvWhile ==
    /\ surveillance.at = "while"
    /\ \E s \in Scans : pc[s] = "idle"
    /\ surveillance' =
           IF surveillance.surveillance_active
           THEN [surveillance EXCEPT !.cycle_count = @ + 1, !.index = 1,
                                     !.at = "for"]
           ELSE [surveillance EXCEPT !.at = "stopped"]
    /\ UNCHANGED <<pc, ticker, scan_locals>>

\* for ticker in self.monitored_tickers: the next ticker is taken and
\* process_ticker(ticker) is entered, or the list is exhausted.
SurvFor ==
    /\ surveillance.at = "for"
    /\ IF surveillance.index <= Len(surveillance.monitored_tickers)
       THEN \E s \in Scans :
              /\ pc[s] = "idle"
              /\ \A t \in Scans : pc[t] = "idle" => s <= t
              /\ ticker' = [ticker EXCEPT ![s] =
                     surveillance.monitored_tickers[surveillance.index]]
              /\ pc' = [pc EXCEPT ![s] = "scan"]
              /\ surveillance' = [surveillance EXCEPT !.at = "call",
                                                       !.scan = s]
       ELSE /\ surveillance' = [surveillance EXCEPT !.at = "monitor"]
            /\ UNCHANGED <<pc, ticker>>
    /\ UNCHANGED scan_locals

\* Variant: the loop goes on without waiting for process_ticker to return.
call_returned_async(s) == TRUE

\* result = self.process_ticker(ticker) is an ordinary blocking call: the
\* statement after it runs when the execution has returned.
call_returned(s) == pc[s] = "done"

\* process_ticker returns to the loop (its status is only logged), or the
\* exception it raised leaves start_surveillance, whose try catches
\* KeyboardInterrupt alone.
SurvCallEnds ==
    /\ surveillance.at = "call"
    /\ LET s == surveillance.scan
       IN  IF pc[s] = "raised"
           THEN surveillance' = [surveillance EXCEPT !.at = "raised",
                                                     !.scan = 0]
           ELSE /\ call_returned(s)
                /\ surveillance' = [surveillance EXCEPT !.at = "for",
                                                         !.index = @ + 1,
                                                         !.scan = 0]
    /\ UNCHANGED <<pc, ticker, scan_locals>>

\* self.monitor_effectiveness(): it absorbs its collaborators' failures
\* and touches nothing process_ticker uses.
SurvMonitor ==
    /\ surveillance.at = "monitor"
    /\ surveillance' = [surveillance EXCEPT !.at = "sleep"]
    /\ UNCHANGED <<pc, ticker, scan_locals>>

\* time.sleep(interval) ends; the time that passes is Tick's.
SurvSleep ==
    /\ surveillance.at = "sleep"
    /\ surveillance' = [surveillance EXCEPT !.at = "while"]
    /\ UNCHANGED <<pc, ticker, scan_locals>>

\* KeyboardInterrupt anywhere inside the try: it unwinds the execution of
\* process_ticker the loop is in, if any (no "except Exception" catches
\* it), and start_surveillance clears surveillance_active and returns.
SurvInterrupt ==
    /\ surveillance.at \in {"while", "for", "call", "monitor", "sleep"}
    /\ surveillance' = [surveillance EXCEPT !.at = "stopped",
                                             !.surveillance_active = FALSE,
                                             !.scan = 0]
    /\ pc' = IF surveillance.at = "call"
                  /\ pc[surveillance.scan] \notin {"done", "raised"}
             THEN [pc EXCEPT ![surveillance.scan] = "raised"]
             ELSE pc
    /\ UNCHANGED <<ticker, scan_locals>>

\* ===================================================================
\* Direct calls of the agents' methods
\* ===================================================================

\* An article of a direct call is given by its age at the crash time (age
\* <<>> for one without a parseable 'published'); this places it on the
\* clock.
article_at(item, crash_time) ==
    [title |-> item.title,
     published |-> IF item.age = <<>> THEN <<>>
                   ELSE <<crash_time - item.age[1]>>]

\* coordinator.correlate_events(stock_data, news_items) is called.  The
\* method reads and writes no field of the coordinator, so one call per
\* behaviour shows all it can do.
CorrelateEventsCall(stock_datas, news_specs) ==
    /\ direct = NoCall
    /\ \E stock_data \in stock_datas, spec \in news_specs :
         LET news_items == [i \in 1..Len(spec) |->
                              article_at(spec[i], crash_time_of(stock_data))]
         IN  direct' = [method |-> "correlate_events",
                        stock_data |-> stock_data,
                        news_items |-> news_items,
                        returned |-> correlate_events(stock_data, news_items)]
    /\ UNCHANGED <<pc, ticker, calls, locals, result, verified_attacks,
                   verified_threats, now, trending_module, surveillance>>

\* trending.process_task(task) is called with a hunt task.  feed_specs
\* give each query's items by their age at the crash time (at the time of
\* the call when the task carries no crash time); llm is what the panic
\* model produces.  One call per behaviour: the method keeps no state.
\* trace holds the method's local variables at its return.
HuntCall(tasks, feed_specs, panic_llm) ==
    /\ direct = NoCall
    /\ \E task \in tasks, spec \in feed_specs, llm \in panic_llm :
         LET reference == Get(task, "crash_time", now)
             feeds == [k \in 1..Len(panic_keywords) |->
                          dated_feed(spec[k], reference)]
         IN  direct' = [method |-> "process_task", task |-> task,
                        feeds |-> feeds, llm |-> llm, now |-> now,
                        trace |-> hunt_locals(task, feeds, now),
                        returned |-> hunt_process_task(task, feeds, llm, now)]
    /\ UNCHANGED <<pc, ticker, calls, locals, result, verified_attacks,
                   verified_threats, now, trending_module, surveillance>>

\* scout.analyze_volatility(prices) is called on a list of closes.  One
\* call per behaviour: the method keeps no state.
AnalyzeVolatilityCall(series) ==
    /\ direct = NoCall
    /\ \E prices \in series :
         direct' = [method |-> "analyze_volatility", prices |-> prices,
                    returned |-> analyze_volatility(prices)]
    /\ UNCHANGED <<pc, ticker, calls, locals, result, verified_attacks,
                   verified_threats, now, trending_module, surveillance>>

\* scout.predict_impact(prices) is called on a list of closes.
PredictImpactCall(series) ==
    /\ direct = NoCall
    /\ \E prices \in series :
         direct' = [method |-> "predict_impact", prices |-> prices,
                    returned |-> predict_impact(prices)]
    /\ UNCHANGED <<pc, ticker, calls, locals, result, verified_attacks,
                   verified_threats, now, trending_module, surveillance>>

\* scout.process_task({'ticker': tk}) is called.  fetched is what the
\* market data service has for the ticker at that moment (None when the
\* request fails); for DEMO.NS the method returns before asking for it.
ScoutTaskCall(tickers, charts) ==
    /\ direct = NoCall
    /\ \E tk \in tickers, fetched \in charts :
         direct' = [method |-> "scout_process_task", ticker |-> tk,
                    fetched |-> fetched, now |-> now,
                    returned |-> scout_process_task(tk, fetched, now)]
    /\ UNCHANGED <<pc, ticker, calls, locals, result, verified_attacks,
                   verified_threats, now, trending_module, surveillance>>

\* ===================================================================
\* Inputs of the collaborators
\* ===================================================================

Price(p) == <<p>>

NullPrice == <<>>

Chart(close, daily_ok, daily) ==
    [has_result |-> TRUE, close |-> close, daily_ok |-> daily_ok,
     daily |-> daily]

Repeat(x, n) == [i \in 1..n |-> x]

\* ten closes at 100.0
FlatChart == Chart(Repeat(Price(1000), 10), FALSE, <<>>)

\* nine closes at 100.0, then 99.0: z = -3
CrashChart == Chart(Repeat(Price(1000), 9) \o <<Price(990)>>, FALSE, <<>>)

\* eight closes at 100.0, then two at 99.0: z = -2 exactly
EdgeChart ==
    Chart(Repeat(Price(1000), 8) \o <<Price(990), Price(990)>>, FALSE, <<>>)

\* nine closes at 100.0, then 101.0: z = 3
RallyChart == Chart(Repeat(Price(1000), 9) \o <<Price(1010)>>, FALSE, <<>>)

\* too few intraday closes; six daily closes ending in a drop
DailyCrashChart ==
    Chart(<<Price(1000), NullPrice, Price(990)>>, TRUE,
          Repeat(Price(1000), 5) \o <<Price(990)>>)

\* too few intraday closes and a single daily close
ThinChart == Chart(<<Price(1000), NullPrice>>, TRUE, <<Price(1000), NullPrice>>)

\* too few intraday closes and a failing fallback request
NoDailyChart == Chart(<<Price(1000)>>, FALSE, <<>>)

\* a response without chart.result
EmptyChart == [has_result |-> FALSE]

Charts ==
    {None, EmptyChart, FlatChart, CrashChart, EdgeChart, RallyChart,
     DailyCrashChart, ThinChart, NoDailyChart}

Tickers == {"DEMO.NS", "TATAMOTORS.NS"}

Item(title, age) == [title |-> title, age |-> <<age>>]

Undated(title) == [title |-> title, age |-> <<>>]

Feed(items) == [ok |-> TRUE, items |-> items]

FailedFeed == [ok |-> FALSE, items |-> <<>>]

\* What the query of keyword k can return: an error, nothing, or one
\* article about the company published age seconds before the crash.
OwnFeed(k) ==
    CASE k = 1 -> Feed(<<Item("CEO under investigation for fraud", 300)>>)
      [] k = 2 -> Feed(<<Item("CFO arrested", 1500)>>)
      [] k = 3 -> Feed(<<Item("Offices raided", 720)>>)
      [] k = 4 -> Feed(<<Item("Bankruptcy filing", 0)>>)
      [] k = 5 -> Feed(<<Item("Scandal widens", 1800)>>)
      [] k = 6 -> Feed(<<Item("Liquidity crisis", 60)>>)

\* A later copy of the fraud headline, published a minute after the crash,
\* and an undated item.
RepostFeed ==
    Feed(<<Undated("Undated rumour"),
           Item("CEO under investigation for fraud", -60)>>)

FeedChoices(k) ==
    {FailedFeed, OwnFeed(k)}
        \cup (IF k = 1 THEN {Feed(<<>>)} ELSE {})
        \cup (IF k = 6 THEN {RepostFeed} ELSE {})

FeedSpecs ==
    {<<f1, f2, f3, f4, f5, f6>> :
        f1 \in FeedChoices(1), f2 \in FeedChoices(2), f3 \in FeedChoices(3),
        f4 \in FeedChoices(4), f5 \in FeedChoices(5), f6 \in FeedChoices(6)}

PanicScores == {0, 60, 61, 73, 90}

PanicLLM ==
    {[kind |-> "error"], [kind |-> "no_score"], [kind |-> "non_numeric"]}
        \cup {[kind |-> "score", panic_score |-> p] : p \in PanicScores}

ResponseLLM ==
    {[kind |-> "error"], [kind |-> "missing_key"],
     [kind |-> "texts", cease_desist |-> "cease", official_denial |-> "denial",
      ceo_alert |-> "alert"]}

DbOutcomes == {"inserted", "no_client", "failed"}

\* ===================================================================
\* Specifications
\* ===================================================================

\* One execution of process_ticker with the full range of inputs.
ScanStep(s) ==
    \/ Call(s, Tickers)
    \/ ScoutStage(s, Charts, BOOLEAN)
    \/ HuntStage(s, FeedSpecs, PanicLLM)
    \/ CorrelateStage(s)
    \/ RespondStage(s, ResponseLLM)
    \/ ArchiveStage(s, DbOutcomes)
    \/ AppendStage(s)
    \/ ReturnVerified(s)

Next == ScanStep(1) \/ Tick

Spec == Init /\ [][Next]_vars

\* Overlapping executions of process_ticker on the one coordinator, each
\* with a reduced range of inputs: the demo ticker or a flat chart, no
\* FORCE_CRASH_TEST file; every query failing or every query returning the
\* same article, five minutes old at the crash, scored 90 or not at all; a responding
\* generator and no database client.
DemoFeedSpec == [k \in 1..6 |-> Feed(<<Item("CEO under investigation for fraud", 300)>>)]

NoNewsFeedSpec == [k \in 1..6 |-> FailedFeed]

ConcCharts == {FlatChart}

ConcFeedSpecs == {DemoFeedSpec, NoNewsFeedSpec}

ConcPanicLLM == {[kind |-> "error"], [kind |-> "score", panic_score |-> 90]}

ConcResponseLLM ==
    {[kind |-> "texts", cease_desist |-> "cease", official_denial |-> "denial",
      ceo_alert |-> "alert"]}

ConcDbOutcomes == {"no_client"}

ConcScanStep(s) ==
    \/ Call(s, Tickers)
    \/ ScoutStage(s, ConcCharts, {FALSE})
    \/ HuntStage(s, ConcFeedSpecs, ConcPanicLLM)
    \/ CorrelateStage(s)
    \/ RespondStage(s, ConcResponseLLM)
    \/ ArchiveStage(s, ConcDbOutcomes)
    \/ AppendStage(s)
    \/ ReturnVerified(s)

NextConc == (\E s \in Scans : ConcScanStep(s)) \/ Tick

SpecConc == Init /\ [][NextConc]_vars

\* The surveillance loop on a coordinator nothing else calls, with the
\* reduced range of inputs per execution of process_ticker.
TickerLists ==
    {<<"DEMO.NS">>, <<"DEMO.NS", "TATAMOTORS.NS">>, <<"DEMO.NS", "DEMO.NS">>}

SurvScanStep(s) ==
    \/ ScoutStage(s, ConcCharts, {FALSE})
    \/ HuntStage(s, ConcFeedSpecs, ConcPanicLLM)
    \/ CorrelateStage(s)
    \/ RespondStage(s, ConcResponseLLM)
    \/ ArchiveStage(s, ConcDbOutcomes)
    \/ AppendStage(s)
    \/ ReturnVerified(s)

NextSurv ==
    \/ StartSurveillance(TickerLists)
    \/ SurvWhile
    \/ SurvFor
    \/ SurvCallEnds
    \/ SurvMonitor
    \/ SurvSleep
    \/ SurvInterrupt
    \/ \E s \in Scans : SurvScanStep(s)
    \/ Tick

SpecSurv == Init /\ [][NextSurv]_vars

\* correlate_events called directly.  First pool: lists of up to two
\* articles, each undated, published a minute after the crash, at the
\* crash, or 1 s, 5 min, 25 min, 30 min or 30 min 1 s before it; a panic
\* score of 0, 74 or 100, or stock data as the Scout returns it (timestamp
\* only, no panic_score).
CorrAges == {-60, 0, 1, 300, 1500, 1800, 1801}

CorrItems(title) == {Undated(title)} \cup {Item(title, a) : a \in CorrAges}

CorrNewsSpecs ==
    {<<>>}
        \cup {<<x>> : x \in CorrItems("first")}
        \cup {<<x, y>> : x \in CorrItems("first"), y \in CorrItems("second")}

CorrStockData ==
    {[crash_timestamp |-> 0, panic_score |-> p] : p \in {0, 74, 100}}
        \cup {[timestamp |-> 0]}

\* Second pool: one article in the causal window, over a grid of latencies
\* (every whole minute and the seconds next to 1, 5 and 30 minutes) and
\* every panic score.
GridAges == {1, 59, 61, 299, 301, 1799} \cup {60 * k : k \in 1..30}

GridPanic == 0..100

GridNewsSpecs == {<<Item("first", a)>> : a \in GridAges}

GridStockData == {[crash_timestamp |-> 0, panic_score |-> p] : p \in GridPanic}

NextCorr ==
    \/ CorrelateEventsCall(CorrStockData, CorrNewsSpecs)
    \/ CorrelateEventsCall(GridStockData, GridNewsSpecs)

SpecCorr == Init /\ [][NextCorr]_vars

\* Hunt mode called directly: a crash time 5 s before the call, at the
\* call, or a minute ahead of the caller's clock, or none; a search window
\* of 10 or 30 minutes, or none (the default); the feeds and the panic
\* model outputs of the full pipeline.
HuntTasks ==
    {[mode |-> "hunt", target_ticker |-> "TATAMOTORS.NS", crash_time |-> ct,
      search_window_minutes |-> w] : ct \in {-5, 0, 60}, w \in {10, 30}}
        \cup {[mode |-> "hunt", target_ticker |-> "TATAMOTORS.NS",
                crash_time |-> 0],
               [mode |-> "hunt", target_ticker |-> "TATAMOTORS.NS",
                search_window_minutes |-> 30]}

NextHunt == HuntCall(HuntTasks, FeedSpecs, PanicLLM)

SpecHunt == Init /\ [][NextHunt]_vars

\* One execution of process_ticker while the panic model is down: every
\* call of it raises, answers with text that is not JSON, or answers with
\* JSON that has no panic_score.  (No scan passes the confidence gate then,
\* so the stages after the correlation are not part of this specification.)
FailingPanicLLM == {[kind |-> "error"], [kind |-> "no_score"]}

NextPanicDown ==
    \/ Call(1, Tickers)
    \/ ScoutStage(1, Charts, BOOLEAN)
    \/ HuntStage(1, FeedSpecs, FailingPanicLLM)
    \/ CorrelateStage(1)
    \/ Tick

SpecPanicDown == Init /\ [][NextPanicDown]_vars

\* The Scout's methods called directly.  Closes of a series are in tenths.
RECURSIVE Walk(_, _)
Walk(start, steps) ==
    IF steps = <<>> THEN <<start>>
    ELSE <<start>> \o Walk(start + Head(steps), Tail(steps))

\* ten closes, each 0.1 or 0.2 above (below) the one before
RisingSeries == {Walk(1000, steps) : steps \in [1..9 -> {1, 2}]}

FallingSeries == {Walk(1000, steps) : steps \in [1..9 -> {-1, -2}]}

\* six closes at 100.0, then four closes each 99.5, 100.0 or 100.5
BandSeries ==
    {Repeat(1000, 6) \o tail : tail \in [1..4 -> {995, 1000, 1005}]}

\* closes between 99.8 and 100.4 whose last lies 2.0037 standard
\* deviations below the mean
NearSigmaSeries ==
    <<1001, 1000, 1002, 1003, 1004, 1003, 1002, 1000, 1004, 998>>

\* eight closes at 100.0, then two at 99.0: z = -2 exactly
EdgeSeries == Repeat(1000, 8) \o <<990, 990>>

\* the three series of test_scout_mock.py
StableMockSeries ==
    <<1000, 1005, 998, 1002, 1001, 999, 1003, 1000, 1002, 998,
      1001, 1000, 999, 1002, 1001>>

CrashMockSeries ==
    <<1000, 1005, 998, 1002, 1001, 999, 1003, 1000, 950, 945,
      938, 932, 925, 920, 915>>

RallyMockSeries ==
    <<1000, 1005, 998, 1002, 1001, 999, 1003, 1000, 1050, 1065,
      1078, 1082, 1091, 1100, 1115>>

VolatilitySeries ==
    RisingSeries \cup FallingSeries \cup BandSeries
        \cup {NearSigmaSeries, EdgeSeries, StableMockSeries}

TrendSeries ==
    RisingSeries \cup FallingSeries \cup BandSeries
        \cup {NearSigmaSeries, StableMockSeries, CrashMockSeries,
               RallyMockSeries}

AsChart(prices) ==
    Chart([i \in 1..Len(prices) |-> Price(prices[i])], FALSE, <<>>)

\* two usable daily closes behind a thin intraday series
TwoDailyChart ==
    Chart(<<Price(1000)>>, TRUE, <<Price(1000), NullPrice, Price(990)>>)

ScoutCharts ==
    Charts \cup {TwoDailyChart, AsChart(NearSigmaSeries)}
        \cup {AsChart(prices) : prices \in BandSeries}

NextScout ==
    \/ AnalyzeVolatilityCall(VolatilitySeries)
    \/ PredictImpactCall(TrendSeries)
    \/ ScoutTaskCall(Tickers, ScoutCharts)

SpecScout == Init /\ [][NextScout]_vars

\* One execution of process_ticker on a market whose closes all lie
\* between 99.5 and 100.5, with the reduced range of inputs for the later
\* stages.
BandCharts ==
    {AsChart(prices) : prices \in BandSeries}
        \cup {AsChart(NearSigmaSeries), AsChart(StableMockSeries)}

NextBand ==
    \/ Call(1, {"TATAMOTORS.NS"})
    \/ ScoutStage(1, BandCharts, {FALSE})
    \/ HuntStage(1, ConcFeedSpecs, ConcPanicLLM)
    \/ CorrelateStage(1)
    \/ RespondStage(1, ConcResponseLLM)
    \/ ArchiveStage(1, ConcDbOutcomes)
    \/ AppendStage(1)
    \/ ReturnVerified(1)
    \/ Tick

SpecBand == Init /\ [][NextBand]_vars

\* GET /war-room/demo-attack: process_ticker("DEMO.NS") with
\* fetch_targeted_news replaced by a function that answers every query
\* with one article dated 12 minutes before the handler's clock reading.
\* The Scout reads the clock again for the crash timestamp, so the article
\* is 12 minutes old at the crash, or older by the time that passed in
\* between.  The panic model rates the headline as high panic.  (No such
\* scan passes the confidence gate, so the stages after the correlation
\* are not part of this specification.)
DemoHeadline ==
    "BREAKING: DEMO Company CEO Under Investigation for Accounting Fraud"

DemoArticleAgeMinutes == 12

DemoAttackFeedSpecs ==
    {[k \in 1..Len(panic_keywords) |->
        Feed(<<Item(DemoHeadline, 60 * DemoArticleAgeMinutes + d)>>)] :
     d \in 0..MaxClock}

HighPanicLLM ==
    {[kind |-> "score", panic_score |-> p] : p \in (PanicThreshold + 1)..100}

\* What the handler answers once process_ticker has returned result.
demo_attack_response(r) ==
    IF r.status = "attack_verified"
    THEN [status |-> "demo_success", attack_package |-> r.attack_package]
    ELSE [status |-> "demo_incomplete", result |-> r]

NextDemo ==
    \/ Call(1, {"DEMO.NS"})
    \/ ScoutStage(1, {None}, BOOLEAN)
    \/ HuntStage(1, DemoAttackFeedSpecs, HighPanicLLM)
    \/ CorrelateStage(1)
    \/ Tick

SpecDemo == Init /\ [][NextDemo]_vars

\* ===================================================================
\* Properties
\* ===================================================================

Invoked(s, stage) == \E i \in 1..Len(calls[s]) : calls[s][i] = stage

Returned(s) == pc[s] = "done"

InList(x, lst) == \E i \in 1..Len(lst) : lst[i] = x

CountIn(x, lst) == Cardinality({i \in 1..Len(lst) : lst[i] = x})

PipelineOrder == <<"scan", "hunt", "correlate", "respond", "archive">>

TerminalStatuses ==
    {"normal", "organic_crash", "low_confidence", "attack_verified",
     "scout_failed", "trending_failed"}

\* C1: the ResponseGenerator and the archive are invoked, and the scan is
\* reported attack_verified, only if the correlation verdict is
\* HIGH_CONFIDENCE; a scan whose correlation verdict is MEDIUM_CONFIDENCE
\* ends in low_confidence without the generator or the archive.
C1_VerifiedOnlyOnHighConfidence ==
    \A s \in Scans :
        /\ (\/ Invoked(s, "respond")
            \/ Invoked(s, "archive")
            \/ (Returned(s) /\ result[s].status = "attack_verified"))
              => correlation[s].verdict = "HIGH_CONFIDENCE"
        /\ (/\ Returned(s)
            /\ correlation[s] # None
            /\ correlation[s].verdict = "MEDIUM_CONFIDENCE")
              => (/\ result[s].status = "low_confidence"
                  /\ ~Invoked(s, "respond")
                  /\ ~Invoked(s, "archive"))

\* C2: a scan whose hunt result has smoking_gun_found = FALSE never invokes
\* the ResponseGenerator or the archive and, once returned, has status
\* organic_crash.
C2_NoHunterGunEndsOrganic ==
    \A s \in Scans :
        (/\ trending_result[s] # None
         /\ trending_result[s].status = "completed"
         /\ ~trending_result[s].smoking_gun_found)
          => (/\ ~Invoked(s, "respond")
              /\ ~Invoked(s, "archive")
              /\ Returned(s) => result[s].status = "organic_crash")

\* The statistics process_ticker works with are those the Scout returned.
StatsAsDetected(s) ==
    /\ scout_result[s].stats = scout_returned[s].stats
    /\ scout_result[s].current_price = scout_returned[s].current_price
    /\ scout_result[s].prediction = scout_returned[s].prediction
    /\ attack_package[s] # None =>
          /\ attack_package[s].z_score = scout_returned[s].stats.z_score
          /\ attack_package[s].current_price = scout_returned[s].current_price
          /\ attack_package[s].projected_loss =
                 scout_returned[s].prediction.projected_loss

\* The statistics process_ticker works with are those of the
\* FORCE_CRASH_TEST override.
StatsAsForced(s) ==
    /\ scout_result[s].stats.z_score = -250
    /\ scout_result[s].current_price = 9450
    /\ scout_result[s].prediction.projected_loss = -500
    /\ attack_package[s] # None =>
          /\ attack_package[s].z_score = -250
          /\ attack_package[s].current_price = 9450
          /\ attack_package[s].projected_loss = -500

\* C3 as stated: the hunter is invoked only if the detector computed
\* SIGMA_EVENT; every other detector status ends the scan in normal after
\* the scan stage alone; the statistics carried on are the detector's.
C3_HuntOnlyOnDetectedSigma ==
    \A s \in Scans :
        /\ Invoked(s, "hunt") =>
              scout_returned[s].stats.volatility_status = "SIGMA_EVENT"
        /\ (/\ scout_returned[s] # None
            /\ scout_returned[s].status = "completed"
            /\ scout_returned[s].stats.volatility_status # "SIGMA_EVENT")
              => (/\ Returned(s)
                  /\ result[s].status = "normal"
                  /\ calls[s] = <<"scan">>)
        /\ scout_result[s] # None => StatsAsDetected(s)

\* C3 amended: the hunter is invoked only if the Scout completed and either
\* the detector computed SIGMA_EVENT or the FORCE_CRASH_TEST file was found.
\* Without the file every other detector status ends the scan in normal
\* after the scan stage alone and the statistics carried on are the
\* detector's; with the file the scan goes on past the gate whatever the
\* detector status, carrying z_score -2.5, price 945.00 and projected loss
\* -5.0.
C3_HuntOnlyOnSigmaOrForced ==
    \A s \in Scans :
        /\ Invoked(s, "hunt") =>
              /\ scout_returned[s].status = "completed"
              /\ \/ scout_returned[s].stats.volatility_status = "SIGMA_EVENT"
                 \/ force_crash_test[s]
        /\ (/\ scout_returned[s] # None
            /\ scout_returned[s].status = "completed"
            /\ scout_returned[s].stats.volatility_status # "SIGMA_EVENT"
            /\ ~force_crash_test[s])
              => (/\ Returned(s)
                  /\ result[s].status = "normal"
                  /\ result[s].volatility_status =
                         scout_returned[s].stats.volatility_status
                  /\ calls[s] = <<"scan">>)
        /\ (scout_result[s] # None /\ ~force_crash_test[s])
              => StatsAsDetected(s)
        /\ (scout_result[s] # None /\ force_crash_test[s])
              => (/\ StatsAsForced(s)
                  /\ Returned(s) => result[s].status # "normal")

\* C3 witness: a scan of a real ticker, without the override, whose detected
\* statistics travelled through the hunt into an attack package.
C3_Witness ==
    \E s \in Scans :
        /\ Invoked(s, "hunt")
        /\ ~force_crash_test[s]
        /\ ticker[s] = "TATAMOTORS.NS"
        /\ attack_package[s] # None

\* C4: no exception escapes process_ticker, and a returned result has one
\* of the six statuses.
C4_NoExceptionEscapes ==
    \A s \in Scans :
        /\ pc[s] # "raised"
        /\ Returned(s) => result[s].status \in TerminalStatuses

\* C5: a Scout result that is not completed is returned as scout_failed,
\* with its error, after the scan stage alone; a hunt result that is not
\* completed is returned as trending_failed, with its error, after the scan
\* and hunt stages alone; in both cases nothing is archived.
C5_StageFailureIsReturned ==
    \A s \in Scans :
        /\ (scout_returned[s] # None /\ scout_returned[s].status # "completed")
              => (/\ Returned(s)
                  /\ result[s].status = "scout_failed"
                  /\ result[s].result = scout_returned[s]
                  /\ "error" \in DOMAIN result[s].result
                  /\ calls[s] = <<"scan">>
                  /\ verified_attacks = <<>>
                  /\ verified_threats = <<>>)
        /\ (trending_result[s] # None /\ trending_result[s].status # "completed")
              => (/\ Returned(s)
                  /\ result[s].status = "trending_failed"
                  /\ result[s].result = trending_result[s]
                  /\ "error" \in DOMAIN result[s].result
                  /\ calls[s] = <<"scan", "hunt">>
                  /\ verified_attacks = <<>>
                  /\ verified_threats = <<>>)

\* C5 witness: a scan returned trending_failed.
C5_Witness ==
    \E s \in Scans : Returned(s) /\ result[s].status = "trending_failed"

\* Where a scan stands agrees with the stages it has invoked, and each
\* stage found the result of the one before it.
StageOrder(s) ==
    /\ calls[s] = SubSeq(PipelineOrder, 1, Len(calls[s]))
    /\ pc[s] \in {"idle", "scan"} => calls[s] = <<>>
    /\ pc[s] = "hunt" => Len(calls[s]) = 1
    /\ pc[s] = "correlate" => Len(calls[s]) = 2
    /\ pc[s] = "respond" => Len(calls[s]) = 3
    /\ pc[s] = "archive" => Len(calls[s]) = 4
    /\ pc[s] \in {"append", "return"} => Len(calls[s]) = 5
    /\ Invoked(s, "hunt") => scout_returned[s] # None
    /\ Invoked(s, "correlate") => trending_result[s] # None
    /\ Invoked(s, "respond") => correlation[s] # None
    /\ Invoked(s, "archive") => responses[s] # None

\* C6: within a scan the stages are invoked in the order scan, hunt,
\* correlate, respond, archive, none skipped on the way to a later one and
\* each after the previous one returned; a scan that has returned or raised
\* invokes no further stage.
C6_StagesInPipelineOrder ==
    /\ [](\A s \in Scans : StageOrder(s))
    /\ [][\A s \in Scans :
            pc[s] \in {"done", "raised"} => calls'[s] = calls[s]]_vars

\* C6 witness: a scan that ran all five stages and returned.
C6_Witness ==
    \E s \in Scans : Returned(s) /\ calls[s] = PipelineOrder

\* C7: when the ResponseGenerator fails the attack package carries the
\* failure record in place of the texts, is appended to verified_attacks,
\* and the scan returns attack_verified with it.
C7_GeneratorFailureStillVerified ==
    \A s \in Scans :
        (responses[s] # None /\ responses[s].status = "failed")
          => (/\ pc[s] \in {"archive", "append", "return", "done"}
              /\ attack_package[s].responses = responses[s]
              /\ DOMAIN attack_package[s].responses = {"status", "error"}
              /\ pc[s] \in {"return", "done"} =>
                    InList(attack_package[s], verified_attacks)
              /\ Returned(s) =>
                    /\ result[s].status = "attack_verified"
                    /\ result[s].attack_package = attack_package[s])

\* C7 witness: a scan whose generator failed has returned.
C7_Witness ==
    \E s \in Scans :
        Returned(s) /\ responses[s] # None /\ responses[s].status = "failed"

\* C8: when the database insert fails the attack package is still appended
\* to verified_attacks and the scan returns attack_verified with it.
C8_ArchiveFailureStillVerified ==
    \A s \in Scans :
        db_outcome[s] = "failed"
          => (/\ pc[s] \in {"append", "return", "done"}
              /\ ~InList(payload_of(attack_package[s]), verified_threats)
              /\ pc[s] \in {"return", "done"} =>
                    InList(attack_package[s], verified_attacks)
              /\ Returned(s) =>
                    /\ result[s].status = "attack_verified"
                    /\ result[s].attack_package = attack_package[s])

\* C8 witness: a scan whose insert failed has returned.
C8_Witness == \E s \in Scans : Returned(s) /\ db_outcome[s] = "failed"

\* C9: no two packages in verified_attacks have the same event_id.
C9_EventIdsUnique ==
    \A i, j \in 1..Len(verified_attacks) :
        i # j => verified_attacks[i].event_id # verified_attacks[j].event_id

\* The scans whose append has happened.
Appended == {s \in Scans : pc[s] = "return"
                \/ (Returned(s) /\ result[s].status = "attack_verified")}

\* verified_attacks holds each package as many times as scans have
\* appended it, and nothing else.
ArchiveMatchesScans ==
    /\ \A i \in 1..Len(verified_attacks) :
          CountIn(verified_attacks[i], verified_attacks) =
              Cardinality({s \in Appended :
                              attack_package[s] = verified_attacks[i]})
    /\ \A s \in Appended :
          CountIn(attack_package[s], verified_attacks) =
              Cardinality({t \in Appended :
                              attack_package[t] = attack_package[s]})
    /\ \A s \in Scans :
          (Returned(s) /\ result[s].status = "attack_verified")
              => result[s].attack_package = attack_package[s]

\* C10: under any interleaving verified_attacks holds exactly one entry per
\* scan that reached attack_verified, and the only step that changes it is
\* such a scan's append of its own package at the end.
C10_OneEntryPerVerifiedScan ==
    /\ []ArchiveMatchesScans
    /\ [][verified_attacks' # verified_attacks =>
            \E s \in Scans :
                /\ pc[s] = "append"
                /\ pc'[s] = "return"
                /\ verified_attacks' =
                       Append(verified_attacks, attack_package[s])]_vars

\* C10 witness: two scans have both appended while a third party of the
\* interleaving is possible: the list holds two entries.
C10_Witness == Len(verified_attacks) >= 2 /\ Cardinality(Appended) >= 2

\* An execution of process_ticker that has been entered and has neither
\* returned nor raised.
InFlight(s) == pc[s] \notin {"idle", "done", "raised"}

AtMostOneInFlightPerTicker ==
    \A s, t \in Scans :
        (InFlight(s) /\ InFlight(t) /\ ticker[s] = ticker[t]) => s = t

\* C11: within start_surveillance at most one execution of process_ticker
\* per monitored ticker is in flight at any time; an execution is entered
\* only while none is in flight for its ticker; and a new cycle begins only
\* when every execution entered before has returned.
C11_NoOverlapPerTicker ==
    /\ []AtMostOneInFlightPerTicker
    /\ [][\A s \in Scans :
            (pc[s] = "idle" /\ pc'[s] = "scan") =>
                \A t \in Scans : InFlight(t) => ticker[t] # ticker'[s]]_vars
    /\ [][surveillance'.cycle_count > surveillance.cycle_count =>
            \A s \in Scans : pc[s] \in {"idle", "done"}]_vars

\* C11 witness: the second cycle is scanning a ticker the first cycle
\* scanned.
C11_Witness ==
    /\ surveillance.cycle_count >= 2
    /\ \E s, t \in Scans :
          s # t /\ pc[s] = "done" /\ InFlight(t) /\ ticker[s] = ticker[t]

\* A direct call of correlate_events has returned with a smoking gun.
CorrelationFound ==
    direct.method = "correlate_events" /\ direct.returned.smoking_gun_found

\* C12: when correlate_events returns smoking_gun_found = TRUE the selected
\* article is one of the list, has a parseable publish time, and was
\* published strictly before the crash and at most 30 minutes before it.
C12_SmokingGunInCausalWindow ==
    CorrelationFound =>
        LET article == direct.returned.smoking_gun
            crash_time == crash_time_of(direct.stock_data)
        IN  /\ InList(article, direct.news_items)
            /\ article.published # <<>>
            /\ direct.returned.article_time = article.published[1]
            /\ 0 < crash_time - article.published[1]
            /\ crash_time - article.published[1] <= 30 * 60

\* C12 witness: a smoking gun was selected from a list that also holds an
\* article that is undated, published at or after the crash, or published
\* more than 30 minutes before it.
C12_Witness ==
    /\ CorrelationFound
    /\ \E i \in 1..Len(direct.news_items) :
          LET a == direct.news_items[i]
              crash_time == crash_time_of(direct.stock_data)
          IN  \/ a.published = <<>>
              \/ a.published[1] >= crash_time
              \/ a.published[1] < crash_time - 30 * 60

\* The articles of the direct call that lie in the causal window, by the
\* window's definition: 0 < crash time - publish time <= 30 minutes.
InCausalWindow(a) ==
    /\ a.published # <<>>
    /\ 0 < crash_time_of(direct.stock_data) - a.published[1]
    /\ crash_time_of(direct.stock_data) - a.published[1] <= 30 * 60

SelectedLatency ==
    crash_time_of(direct.stock_data)
        - direct.returned.smoking_gun.published[1]

PanicSupplied == "panic_score" \in DOMAIN direct.stock_data

\* 10000 * (0.6 * temporal_score + 0.4 * panic_score), with
\* temporal_score = max(0, 100 - 3 * latency_minutes), for a latency in
\* seconds: 100 * temporal_score = max(0, 10000 - 5 * latency).
WeightedScore10000(latency, panic_score) ==
    60 * (IF 10000 - 5 * latency > 0 THEN 10000 - 5 * latency ELSE 0)
        + 4000 * panic_score

\* C14: the confidence returned with a smoking gun is the weighted score
\* rounded to the nearest integer: it differs from it by at most one half.
C14_ConfidenceIsRounded ==
    (CorrelationFound /\ PanicSupplied) =>
        LET x == WeightedScore10000(SelectedLatency,
                                    direct.stock_data.panic_score)
            c == direct.returned.correlation_confidence
        IN  /\ 2 * (10000 * c - x) <= 10000
            /\ 2 * (x - 10000 * c) <= 10000

\* What correlate_events returns for the direct call's stock data with the
\* panic score q and a single article published age seconds before the
\* crash.
ConfidenceAt(age, q) ==
    correlate_events(
        [direct.stock_data EXCEPT !.panic_score = q],
        <<article_at(Item("first", age), crash_time_of(direct.stock_data))>>
    ).correlation_confidence

\* C15: with the panic score held fixed the confidence does not rise when
\* the selected article's latency rises, and with the latency held fixed it
\* does not fall when the panic score rises, over latencies in (0, 30 min]
\* and panic scores in 0..100.
C15_ConfidenceMonotone ==
    (CorrelationFound /\ PanicSupplied) =>
        LET c == direct.returned.correlation_confidence
            q == direct.stock_data.panic_score
        IN  /\ \A age \in GridAges :
                  /\ age >= SelectedLatency => ConfidenceAt(age, q) <= c
                  /\ age <= SelectedLatency => ConfidenceAt(age, q) >= c
            /\ \A q2 \in GridPanic :
                  /\ q2 >= q => ConfidenceAt(SelectedLatency, q2) >= c
                  /\ q2 <= q => ConfidenceAt(SelectedLatency, q2) <= c

\* C15 witness: a call strictly inside the grid whose confidence is below
\* that of a shorter latency and above that of a lower panic score.
C15_Witness ==
    /\ CorrelationFound
    /\ PanicSupplied
    /\ \E age \in GridAges :
          /\ age < SelectedLatency
          /\ ConfidenceAt(age, direct.stock_data.panic_score)
                 > direct.returned.correlation_confidence
    /\ \E q2 \in GridPanic :
          /\ q2 < direct.stock_data.panic_score
          /\ ConfidenceAt(SelectedLatency, q2)
                 < direct.returned.correlation_confidence

\* C16: correlate_events returns smoking_gun_found = FALSE with confidence
\* 0 and verdict NO_NEWS_DATA exactly when the list is empty, and with
\* verdict NO_TEMPORAL_MATCH exactly when the list is not empty and holds
\* no article with a parseable time in the causal window; in every other
\* case it returns smoking_gun_found = TRUE.
C16_NotFoundOutcomes ==
    direct.method = "correlate_events" =>
        LET news_items == direct.news_items
            r == direct.returned
            matched == \E i \in 1..Len(news_items) :
                           InCausalWindow(news_items[i])
        IN  /\ (news_items = <<>>) <=> (r.verdict = "NO_NEWS_DATA")
            /\ (news_items # <<>> /\ ~matched)
                   <=> (r.verdict = "NO_TEMPORAL_MATCH")
            /\ (news_items # <<>> /\ matched) <=> r.smoking_gun_found
            /\ r.verdict \in {"NO_NEWS_DATA", "NO_TEMPORAL_MATCH"} =>
                   /\ ~r.smoking_gun_found
                   /\ r.correlation_confidence = 0
            /\ r.smoking_gun_found =>
                   r.verdict \in {"HIGH_CONFIDENCE", "MEDIUM_CONFIDENCE"}

\* C16 witness: a list of two articles, neither in the causal window, gave
\* NO_TEMPORAL_MATCH.
C16_Witness ==
    /\ direct.method = "correlate_events"
    /\ Len(direct.news_items) = 2
    /\ direct.returned.verdict = "NO_TEMPORAL_MATCH"

\* A direct call of hunt mode has returned a result with an article list.
HuntReturnedArticles ==
    /\ direct.method = "process_task"
    /\ direct.returned.status = "completed"
    /\ "articles" \in DOMAIN direct.returned

\* The search window of the direct hunt call, in seconds.
HuntWindowSeconds == 60 * Get(direct.task, "search_window_minutes", 30)

\* C17 as stated: every article of a hunt result has a publish time pt with
\* crash_time - window < pt <= crash_time.
C17_ArticlesInOpenWindow ==
    (HuntReturnedArticles /\ "crash_time" \in DOMAIN direct.task) =>
        \A i \in 1..Len(direct.returned.articles) :
            LET a == direct.returned.articles[i]
            IN  /\ a.published # <<>>
                /\ direct.task.crash_time - HuntWindowSeconds < a.published[1]
                /\ a.published[1] <= direct.task.crash_time

\* C17 amended: every article of a hunt result for a task with a crash time
\* has a publish time pt with crash_time - window <= pt <= crash_time (the
\* far end of the window is included); every article of any hunt result
\* was published no longer than the window before the call.
C17_ArticlesInClosedWindow ==
    HuntReturnedArticles =>
        \A i \in 1..Len(direct.returned.articles) :
            LET a == direct.returned.articles[i]
            IN  /\ a.published # <<>>
                /\ a.published[1] >= direct.now - HuntWindowSeconds
                /\ "crash_time" \in DOMAIN direct.task =>
                      /\ direct.task.crash_time - HuntWindowSeconds
                             <= a.published[1]
                      /\ a.published[1] <= direct.task.crash_time

\* C17 witness: a hunt result holds an article published exactly one
\* window before the crash, from feeds that also held an article published
\* after the crash.
C17_Witness ==
    /\ HuntReturnedArticles
    /\ "crash_time" \in DOMAIN direct.task
    /\ \E i \in 1..Len(direct.returned.articles) :
          direct.returned.articles[i].published[1]
              = direct.task.crash_time - HuntWindowSeconds
    /\ \E k \in 1..Len(panic_keywords) :
          \E j \in 1..Len(direct.feeds[k].items) :
              /\ direct.feeds[k].items[j].pubDate # <<>>
              /\ direct.feeds[k].items[j].pubDate[1]
                     > direct.task.crash_time

\* C18: in every hunt result with at least one in-window article,
\* smoking_gun_found is TRUE exactly when panic_score > 60, and the verdict
\* is MISINFORMATION_LIKELY exactly when smoking_gun_found is TRUE and
\* ORGANIC_VOLATILITY otherwise.
C18_SmokingGunIffPanicAbove60 ==
    HuntReturnedArticles =>
        LET r == direct.returned
        IN  /\ r.articles # <<>>
            /\ r.smoking_gun_found <=> (r.panic_score > 60)
            /\ r.smoking_gun_found <=> (r.verdict = "MISINFORMATION_LIKELY")
            /\ ~r.smoking_gun_found <=> (r.verdict = "ORGANIC_VOLATILITY")
            /\ direct.llm.kind = "score" =>
                   r.panic_score = direct.llm.panic_score

\* C18 witness: the panic model scored the headlines 61 and the hunt
\* reported a smoking gun.
C18_Witness ==
    /\ HuntReturnedArticles
    /\ direct.returned.panic_score = 61
    /\ direct.returned.smoking_gun_found

\* The queries of the direct hunt call whose fetch failed.
FailedQueries ==
    {k \in 1..Len(panic_keywords) : ~direct.feeds[k].ok}

\* The feeds of the direct hunt call with every failing query answered by
\* an empty feed instead.
FeedsWithoutFailures ==
    [k \in 1..Len(panic_keywords) |->
        IF direct.feeds[k].ok THEN direct.feeds[k]
        ELSE [ok |-> TRUE, items |-> <<>>]]

\* C19: failing queries do not abort the hunt and take nothing from the
\* other queries' articles: the result is the one the hunt gives when the
\* failing queries answer with no items, and it is failed only if the
\* panic score is not a number; when all six queries fail the result is
\* the no-articles outcome.
C19_FetchFailuresTolerated ==
    direct.method = "process_task" =>
        LET r == direct.returned
        IN  /\ r = hunt_process_task(direct.task, FeedsWithoutFailures,
                                     direct.llm, direct.now)
            /\ r.status # "completed" => direct.llm.kind = "non_numeric"
            /\ FailedQueries = 1..Len(panic_keywords) =>
                   /\ r.status = "completed"
                   /\ ~r.smoking_gun_found
                   /\ r.verdict = "NO_MISINFORMATION_DETECTED"
                   /\ r.articles_analyzed = 0
                   /\ "articles" \notin DOMAIN r

\* C19 witness: the first query failed, a later one did not, and the hunt
\* scored the articles of the later ones.
C19_Witness ==
    /\ HuntReturnedArticles
    /\ 1 \in FailedQueries
    /\ Cardinality(FailedQueries) >= 2
    /\ direct.returned.articles_analyzed >= 2
    /\ direct.returned.smoking_gun_found

\* C20: while the panic model errors, gives unparsable output or gives
\* output without a panic_score, every hunt returns status completed with
\* smoking_gun_found = FALSE, and panic_score 0 when it had at least one
\* in-window article, and no scan ends in trending_failed.
C20_PanicFailureAbsorbed ==
    \A s \in Scans :
        trending_result[s] # None =>
            /\ trending_result[s].status = "completed"
            /\ ~trending_result[s].smoking_gun_found
            /\ "articles" \in DOMAIN trending_result[s] =>
                  /\ trending_result[s].articles # <<>>
                  /\ trending_result[s].panic_score = 0
                  /\ trending_result[s].verdict = "ORGANIC_VOLATILITY"
            /\ Returned(s) =>
                  result[s].status \in {"organic_crash", "low_confidence"}

\* C20 witness: a scan whose hunt had in-window articles returned.
C20_Witness ==
    \E s \in Scans :
        /\ Returned(s)
        /\ trending_result[s] # None
        /\ "articles" \in DOMAIN trending_result[s]
        /\ trending_result[s].articles_analyzed >= 2
        /\ result[s].status = "low_confidence"

ResponseTextFields == {"cease_desist", "official_denial", "ceo_alert"}

\* C21: every attack package returned with status attack_verified carries
\* a responses record with the three text fields cease_desist,
\* official_denial and ceo_alert, each a non-empty string (the generated
\* text or a placeholder).
C21_VerifiedPackageHasThreeTexts ==
    \A s \in Scans :
        (Returned(s) /\ result[s].status = "attack_verified") =>
            LET r == result[s].attack_package.responses
            IN  /\ ResponseTextFields \subseteq DOMAIN r
                /\ \A f \in ResponseTextFields : r[f] # ""


\* The fixed-threshold classification of a z-score given in hundredths.
ThresholdStatus(z) ==
    IF z < -200 THEN "SIGMA_EVENT"
    ELSE IF z < -100 THEN "HIGH_VOLATILITY"
    ELSE IF z > 200 THEN "RALLY"
    ELSE "STABLE"

\* C22: in every result of analyze_volatility the status is the
\* fixed-threshold classification of the returned z_score (SIGMA_EVENT
\* below -2.0, else HIGH_VOLATILITY below -1.0, else RALLY above 2.0, else
\* STABLE), so that equal z_scores never carry different statuses.
C22_StatusClassifiesReturnedZ ==
    direct.method = "analyze_volatility" =>
        direct.returned.volatility_status
            = ThresholdStatus(direct.returned.z_score)


StrictlyIncreasing(prices) ==
    \A i \in 1..(Len(prices) - 1) : prices[i] < prices[i + 1]

StrictlyDecreasing(prices) ==
    \A i \in 1..(Len(prices) - 1) : prices[i] > prices[i + 1]

\* The least-squares slope over the trailing 10 closes, as a fraction
\* TrailingNum / TrailingDen of a tenth per point.
TrailingNum(prices) == SlopeNum(LastK(prices, TrendWindow))

TrailingDen(prices) == SlopeDen(Len(LastK(prices, TrendWindow)))

PredictImpactReturned == direct.method = "predict_impact"

C24_BandSeriesScanNormal ==
    \A s \in Scans :
        (/\ Returned(s)
         /\ scout_returned[s] # None
         /\ scout_returned[s].status = "completed"
         /\ scout_returned[s].current_price \in 995..1005) =>
            /\ scout_returned[s].stats.volatility_status # "SIGMA_EVENT"
            /\ result[s].status = "normal"


ScoutTaskReturned == direct.method = "scout_process_task"

\* The closes that are not null in the granularity the Scout ends up
\* with: intraday when it has 10 or more of them, else daily; none when a
\* request fails or has no chart.result.
UsableCloses(fetched) ==
    IF "has_result" \notin DOMAIN fetched THEN <<>>
    ELSE IF ~fetched.has_result THEN <<>>
    ELSE LET intraday == SelectSeq(fetched.close, LAMBDA p : p # NullPrice)
         IN  IF Len(intraday) >= 10 THEN intraday
             ELSE IF ~fetched.daily_ok THEN <<>>
             ELSE SelectSeq(fetched.daily, LAMBDA p : p # NullPrice)

ExplicitFailure(r) ==
    /\ r.status = "failed"
    /\ "error" \in DOMAIN r
    /\ r.error # ""
    /\ "stats" \notin DOMAIN r
    /\ "prediction" \notin DOMAIN r

\* C25 as stated: whenever fewer than 2 usable closes are available after
\* the fall back from intraday to daily granularity, the Scout task
\* returns a failed result with an error and never a completed one.
C25_TooFewClosesAlwaysFail ==
    (ScoutTaskReturned /\ Len(UsableCloses(direct.fetched)) < 2) =>
        ExplicitFailure(direct.returned)

\* C25 amended: for every ticker other than DEMO.NS the Scout task returns
\* a failed result with an error, and neither stats nor a prediction,
\* whenever fewer than 2 usable closes are available after the fall back;
\* a completed result has its stats computed from at least 2 closes.  For
\* DEMO.NS it returns the canned completed result whatever is available.
C25_TooFewClosesFailUnlessDemo ==
    ScoutTaskReturned =>
        LET usable == UsableCloses(direct.fetched)
            r == direct.returned
        IN  IF direct.ticker = "DEMO.NS"
            THEN r = DemoScoutResult(direct.now)
            ELSE /\ Len(usable) < 2 => ExplicitFailure(r)
                 /\ r.status = "completed" =>
                        /\ Len(usable) >= 2
                        /\ r.current_price = usable[Len(usable)][1]

\* A chart with a single usable daily close was refused.
C25_Witness ==
    /\ ScoutTaskReturned
    /\ direct.ticker # "DEMO.NS"
    /\ Len(UsableCloses(direct.fetched)) = 1
    /\ ExplicitFailure(direct.returned)


HuntReturned == direct.method = "process_task"

TitlesOf(arts) == [i \in 1..Len(arts) |-> arts[i].title]

\* C26: hunt mode calls the panic scorer exactly once, with the titles of
\* all articles that survive the removal of duplicates and the time
\* filter, when there is at least one, and not at all when there is none;
\* it then returns completed with NO_MISINFORMATION_DETECTED and
\* smoking_gun_found = false.
C26_PanicScorerCalledOncePerHunt ==
    HuntReturned =>
        LET survivors == direct.trace.unique_articles
            panic_calls == direct.trace.panic_calls
            r == direct.returned
        IN  IF survivors # <<>>
            THEN /\ panic_calls = <<TitlesOf(survivors)>>
                 /\ r.status = "completed" =>
                        r.articles_analyzed = Len(survivors)
            ELSE /\ panic_calls = <<>>
                 /\ r.status = "completed"
                 /\ r.verdict = "NO_MISINFORMATION_DETECTED"
                 /\ r.smoking_gun_found = FALSE

\* Six articles survived and all six headlines were passed in one call.
C26_Witness ==
    /\ HuntReturned
    /\ Len(direct.trace.unique_articles) > ReviewLimit
    /\ Len(direct.trace.panic_calls) = 1
    /\ Len(direct.trace.panic_calls[1]) = Len(direct.trace.unique_articles)


\* C27: a demo-attack run (DEMO.NS scanned with the single injected
\* article, published 12 minutes before the crash and scored as high
\* panic) ends in attack_verified with a saved attack package and is
\* reported as demo_success.
C27_DemoAttackIsVerified ==
    Returned(1) =>
        /\ result[1].status = "attack_verified"
        /\ demo_attack_response(result[1]).status = "demo_success"
        /\ verified_attacks # <<>>


\* C28: the smoking gun process_ticker reports is the article with the
\* smallest positive latency among all articles the hunt found inside its
\* window (as many as articles_analyzed counts): none of them was
\* published before the crash and later than it.
C28_SmokingGunClosestOfAllFound ==
    \A s \in Scans :
        (correlation[s] # None /\ correlation[s].smoking_gun_found) =>
            LET found == hunt_unique_articles[s]
                crash_time == scout_result[s].crash_timestamp
                selected == correlation[s].smoking_gun
            IN  /\ Len(found) = trending_result[s].articles_analyzed
                /\ \A i \in 1..Len(found) :
                      (/\ found[i].published # <<>>
                       /\ found[i].published[1] < crash_time)
                        => found[i].published[1] <= selected.published[1]


\* Whether a fetched article lies in the hunt window of the direct call's
\* task: dated, and published no earlier than the window before the crash
\* and no later than the crash.
InHuntWindowOfCall(a) ==
    /\ "crash_time" \in DOMAIN direct.task
    /\ a.published # <<>>
    /\ direct.task.crash_time - HuntWindowSeconds <= a.published[1]
    /\ a.published[1] <= direct.task.crash_time

\* C29: if an article fetched during a hunt has a publish time inside the
\* hunt window, an article with that title is among the hunt's in-window
\* articles: the removal of duplicates never drops it in favour of a
\* same-titled article that the time filter then removes.
C29_InWindowTitleSurvives ==
    HuntReturned =>
        \A i \in 1..Len(direct.trace.all_articles) :
            InHuntWindowOfCall(direct.trace.all_articles[i]) =>
                \E j \in 1..Len(direct.trace.unique_articles) :
                    direct.trace.unique_articles[j].title
                        = direct.trace.all_articles[i].title


\* C30: if the hunt of a scan reported smoking_gun_found = TRUE, the
\* correlation finds at least one candidate among the articles the hunter
\* kept and the scan is never returned as organic_crash.
C30_HunterGunNeverOrganic ==
    \A s \in Scans :
        (/\ trending_result[s] # None
         /\ trending_result[s].status = "completed"
         /\ trending_result[s].smoking_gun_found
         /\ correlation[s] # None) =>
            /\ correlation[s].smoking_gun_found
            /\ Get(correlation[s], "total_candidates", 0) >= 1
            /\ Returned(s) => result[s].status # "organic_crash"

====
